---------------------------- MODULE Spec2Model ----------------------------
(***************************************************************************)
(* bandolier: the acquisition pipeline of src/bandolier.py.                *)
(*                                                                         *)
(* Each request to POST /download/civitai/ is one execution context that   *)
(* runs download_civitai.  The contexts share the admission table          *)
(* `pending` (a multiprocessing ShareableList guarded by the               *)
(* multiprocessing Lock `pending_lock`) and the model directory.  A        *)
(* `with pending_lock:` block holds no suspension point and touches only   *)
(* `pending`, so it is one atomic step; every other statement group        *)
(* between two suspension points (await) or lock blocks is a step of its   *)
(* own, and steps of different contexts interleave freely.                 *)
(*                                                                         *)
(* The directory is modelled at the level of file existence: for each      *)
(* filename the .pending file, the .modelcard sidecar (absent, opened and  *)
(* still empty, or holding a serialized Model) and the final data file.    *)
(***************************************************************************)
EXTENDS Naturals, Sequences, FiniteSets

\* ---------------------------------------------------------------- bounds
\* Length of the admission table (100 in the source, scaled down).
Capacity == 2
\* Longest "files" list of a catalog record.
MaxFiles == 2

\* The requests, numbered in the order in which their handlers start: one more
\* than the table has slots, so that the table can fill.
Reqs == {1, 2, 3}

\* The aliases, named in the order of their first use.
AliasSeq == <<"a", "b", "c">>
Aliases == {AliasSeq[i] : i \in 1 .. Len(AliasSeq)}
Files == {"f1", "f2"}

\* The value None of Python, and the absence of a file.
None == "None"

\* ------------------------------------------------- the metadata provider
\* One element of model_card["files"].
FileObjs ==
    [primary : BOOLEAN, pickleScanResult : {"Success", "Danger"},
     virusScanResult : {"Success", "Infected"}, name : Files]

FileLists == UNION {[1 .. n -> FileObjs] : n \in 0 .. MaxFiles}

\* The catalog records the provider can return: the fields download_civitai
\* reads from model_card.
Cards ==
    [type : {"Checkpoint", "LORA"}, baseModel : {"SD 1.5", "Other", "SDXL 1.0"},
     files : FileLists]

GoodFile(f) ==
    [primary |-> TRUE, pickleScanResult |-> "Success",
     virusScanResult |-> "Success", name |-> f]

GoodCard(f) ==
    [type |-> "Checkpoint", baseModel |-> "SD 1.5", files |-> <<GoodFile(f)>>]

LoraCard ==
    [type |-> "LORA", baseModel |-> "SD 1.5", files |-> <<GoodFile("f1")>>]

Hashes == {"h1", "h2", "h3"}

\* The provider's catalog in the concurrent scenarios: two checkpoints with
\* different filenames and one record of another type.
MainCatalog ==
    [h \in Hashes |->
        IF h = "h1" THEN GoodCard("f1")
        ELSE IF h = "h2" THEN GoodCard("f2") ELSE LoraCard]

VARIABLES
    lock,      \* pending_lock: <<>> when free, else the context holding it
    lpc,       \* where the handler of GET /pending stands
    snap,      \* the slots that handler has read so far
    catalog,   \* the metadata provider: the record it returns for each hash
    pc,        \* pc[r]: where request r stands in download_civitai
    alias,     \* alias[r]: dm.alias
    hash,      \* hash[r]: dm.hash
    ret,       \* ret[r]: <<model_info>> of the response, <<>> if none
    pending,   \* the admission table: a sequence of Capacity slots
    pendfile,  \* pendfile[f]: <f>.pending exists
    sidecar,   \* sidecar[f]: <f>.modelcard, <<>> if absent
    data       \* data[f]: the final-named data file <f>, <<>> if absent

vars == <<lock, lpc, snap, catalog, pc, alias, hash, ret, pending, pendfile, sidecar, data>>

\* ------------------------------------------------------ the Model record
\* model_card["files"] filtered by f.get("primary") == True.
PrimaryFiles(card) == SelectSeq(card.files, LAMBDA f : f.primary)

\* [f for f in model_card["files"] if f.get("primary") == True][0]
primary_file_obj(card) == PrimaryFiles(card)[1]

\* The dataclass Model built at line 185.  name, model_id, version_id, file_id
\* and download_url are fields of the catalog record, which the hash fixes.
Model(a, h, card) ==
    [alias |-> a, model_hash |-> h, filename |-> primary_file_obj(card).name]

\* The Model request r builds once its catalog record has passed the gates.
ModelOf(r) == Model(alias[r], hash[r], catalog[hash[r]])

FileOf(r) == ModelOf(r).filename

\* ------------------------------------------------------------ validation
\* The allow-list of line 150.
AllowedBaseModels == {"SD 1.5", "Other", "SD 1.4"}

\* The gates with the two scan checks ahead of the type and base-model checks.
validate_scans_first(card) ==
    IF PrimaryFiles(card) = <<>> THEN "IndexError"
    ELSE IF primary_file_obj(card).pickleScanResult # "Success"
    THEN "FailedSafetyScan"
    ELSE IF primary_file_obj(card).virusScanResult # "Success"
    THEN "FailedVirusScan"
    ELSE IF card.type # "Checkpoint" THEN "WrongType"
    ELSE IF card.baseModel \notin AllowedBaseModels THEN "UnsupportedBaseModel"
    ELSE "ok"

\* The policy gates of download_civitai, in the order of the code: the name
\* of the rejection, "IndexError" for the unguarded [0] on an empty list of
\* primary files, "ok" when the record passes.
validate(card) ==
    IF card.type # "Checkpoint" THEN "WrongType"
    ELSE IF card.baseModel \notin AllowedBaseModels THEN "UnsupportedBaseModel"
    ELSE IF PrimaryFiles(card) = <<>> THEN "IndexError"
    ELSE IF primary_file_obj(card).pickleScanResult # "Success"
    THEN "FailedSafetyScan"
    ELSE IF primary_file_obj(card).virusScanResult # "Success"
    THEN "FailedVirusScan"
    ELSE "ok"

\* The rejections that release the slot before raising HTTPException(422).
Rejections ==
    {"WrongType", "UnsupportedBaseModel", "FailedSafetyScan", "FailedVirusScan"}

\* ---------------------------------------------------- the admission table
\* `x in pending`
InTable(p, x) == \E i \in 1 .. Len(p) : p[i] = x

\* pending.index(x): the first position holding x (ValueError if there is none).
index(p, x) == CHOOSE i \in 1 .. Len(p) : p[i] = x /\ \A j \in 1 .. i - 1 : p[j] # x

\* idx = pending.index(alias); pending[idx] = None
release(p, a) == [p EXCEPT ![index(p, a)] = None]

\* GET /pending: [p for p in pending if p is not None]
list_pending(p) == SelectSeq(p, LAMBDA x : x # None)

\* ------------------------------------------------------------ the registry
\* The sidecars that hold a complete serialized Model.
Registry ==
    {sidecar[f][1].model : f \in {g \in Files : sidecar[g] # <<>> /\ sidecar[g][1].written}}

\* json.loads raises on a sidecar that is opened but not yet written.
ScanRaises == \E f \in Files : sidecar[f] # <<>> /\ ~sidecar[f][1].written

\* load_models()[a]: the Models of alias a among the sidecars.  Two sidecars
\* with one alias leave the choice to the order of glob.
Lookup(a) == {m \in Registry : m.alias = a}

\* ------------------------------------------------------------------ Init
\* After lifespan() has set every slot to None, with an empty model directory.
InitState ==
    /\ lock = <<>>
    /\ lpc = "idle"
    /\ snap = <<>>
    /\ pc = [r \in Reqs |-> "Idle"]
    /\ alias = [r \in Reqs |-> None]
    /\ hash = [r \in Reqs |-> None]
    /\ ret = [r \in Reqs |-> <<>>]
    /\ pending = [i \in 1 .. Capacity |-> None]
    /\ pendfile = [f \in Files |-> FALSE]
    /\ sidecar = [f \in Files |-> <<>>]
    /\ data = [f \in Files |-> <<>>]

Init == catalog = MainCatalog /\ InitState

\* ------------------------------------------- download_civitai, lines 122-129
\* Request r arrives with alias a: the requests before it have arrived, and a
\* is an alias already used or the first unused one.
Arrives(r, a) ==
    /\ pc[r] = "Idle"
    /\ \A q \in Reqs : q < r => pc[q] # "Idle"
    /\ \E i \in 1 .. Len(AliasSeq) :
          /\ AliasSeq[i] = a
          /\ \A j \in 1 .. i - 1 : \E q \in Reqs : alias[q] = AliasSeq[j]

\* The request arrives with (a, h) and load_models() raises on a sidecar it
\* cannot parse: the request ends with an unhandled exception.
ScanError(r, a, h) ==
    /\ Arrives(r, a)
    /\ ScanRaises
    /\ pc' = [pc EXCEPT ![r] = "ScanError"]
    /\ alias' = [alias EXCEPT ![r] = a]
    /\ hash' = [hash EXCEPT ![r] = h]
    /\ UNCHANGED <<lock, lpc, snap, catalog, ret, pending, pendfile, sidecar, data>>

\* `alias in db`: return {alias: "present", "model_info": db[alias]}.
Present(r, a, h) ==
    /\ Arrives(r, a)
    /\ ~ScanRaises
    /\ \E m \in Lookup(a) : ret' = [ret EXCEPT ![r] = <<m>>]
    /\ pc' = [pc EXCEPT ![r] = "Present"]
    /\ alias' = [alias EXCEPT ![r] = a]
    /\ hash' = [hash EXCEPT ![r] = h]
    /\ UNCHANGED <<lock, lpc, snap, catalog, pending, pendfile, sidecar, data>>

\* The request goes on to the admission table whether or not db holds the alias.
Absent_unchecked(r, a, h) ==
    /\ Arrives(r, a)
    /\ ~ScanRaises
    /\ pc' = [pc EXCEPT ![r] = "Checked"]
    /\ alias' = [alias EXCEPT ![r] = a]
    /\ hash' = [hash EXCEPT ![r] = h]
    /\ UNCHANGED <<lock, lpc, snap, catalog, ret, pending, pendfile, sidecar, data>>

\* The alias is not in db: the request goes on to the admission table.
Absent(r, a, h) ==
    /\ Arrives(r, a)
    /\ ~ScanRaises
    /\ Lookup(a) = {}
    /\ pc' = [pc EXCEPT ![r] = "Checked"]
    /\ alias' = [alias EXCEPT ![r] = a]
    /\ hash' = [hash EXCEPT ![r] = h]
    /\ UNCHANGED <<lock, lpc, snap, catalog, ret, pending, pendfile, sidecar, data>>

\* ------------------------------------------- download_civitai, lines 131-139
\* `alias in pending`: return {alias: "pending"}.
ClaimInFlight(r) ==
    /\ pc[r] = "Checked"
    /\ InTable(pending, alias[r])
    /\ pc' = [pc EXCEPT ![r] = "AlreadyInFlight"]
    /\ UNCHANGED <<lock, lpc, snap, catalog, alias, hash, ret, pending, pendfile, sidecar, data>>

\* No slot holds None: pending.index(None) raises ValueError, which leaves the
\* `with` block (releasing the lock) and the handler; line 137 is never reached.
ClaimFull(r) ==
    /\ pc[r] = "Checked"
    /\ ~InTable(pending, alias[r])
    /\ ~InTable(pending, None)
    /\ pc' = [pc EXCEPT ![r] = "ValueError"]
    /\ UNCHANGED <<lock, lpc, snap, catalog, alias, hash, ret, pending, pendfile, sidecar, data>>

\* The claim without the `alias in pending` test.
Claim_unchecked(r) ==
    /\ pc[r] = "Checked"
    /\ InTable(pending, None)
    /\ pending' = [pending EXCEPT ![index(pending, None)] = alias[r]]
    /\ pc' = [pc EXCEPT ![r] = "Fetching"]
    /\ UNCHANGED <<lock, lpc, snap, catalog, alias, hash, ret, pendfile, sidecar, data>>

\* The claim that goes on without writing the alias into the table.
Claim_forgets(r) ==
    /\ pc[r] = "Checked"
    /\ ~InTable(pending, alias[r])
    /\ InTable(pending, None)
    /\ pc' = [pc EXCEPT ![r] = "Fetching"]
    /\ UNCHANGED <<lock, lpc, snap, catalog, alias, hash, ret, pending, pendfile, sidecar, data>>

\* pending[pending.index(None)] = alias
Claim(r) ==
    /\ pc[r] = "Checked"
    /\ ~InTable(pending, alias[r])
    /\ InTable(pending, None)
    /\ pending' = [pending EXCEPT ![index(pending, None)] = alias[r]]
    /\ pc' = [pc EXCEPT ![r] = "Fetching"]
    /\ UNCHANGED <<lock, lpc, snap, catalog, alias, hash, ret, pendfile, sidecar, data>>

\* ------------------------------------------- download_civitai, lines 141-177
\* fetch_model_card or json.loads raises: nothing catches it.
FetchFail(r) ==
    /\ pc[r] = "Fetching"
    /\ pc' = [pc EXCEPT ![r] = "FetchError"]
    /\ UNCHANGED <<lock, lpc, snap, catalog, alias, hash, ret, pending, pendfile, sidecar, data>>

\* The gates with a rejection that raises without clearing the slot.
Validate_leaks(r) ==
    /\ pc[r] = "Fetching"
    /\ LET v == validate(catalog[hash[r]])
       IN  pc' = [pc EXCEPT ![r] = IF v = "ok" THEN "Downloading" ELSE v]
    /\ UNCHANGED <<lock, lpc, snap, catalog, alias, hash, ret, pending, pendfile, sidecar, data>>

\* The record arrives and runs through the gates.  A rejection clears the slot
\* under the lock and raises; the IndexError of line 161 raises at once.
Validate(r) ==
    /\ pc[r] = "Fetching"
    /\ LET v == validate(catalog[hash[r]])
       IN  /\ pc' = [pc EXCEPT ![r] = IF v = "ok" THEN "Downloading" ELSE v]
           /\ pending' = IF v \in Rejections THEN release(pending, alias[r]) ELSE pending
    /\ UNCHANGED <<lock, lpc, snap, catalog, alias, hash, ret, pendfile, sidecar, data>>

\* ------------------------------------------------- download_model, 72-80
\* A failed download that still writes the sidecar of its Model.
DownloadFail_stores(r) ==
    /\ pc[r] \in {"Downloading", "Streaming"}
    /\ pc' = [pc EXCEPT ![r] = "DownloadError"]
    /\ sidecar' = [sidecar EXCEPT ![FileOf(r)] =
                      <<[by |-> r, written |-> TRUE, model |-> ModelOf(r)]>>]
    /\ UNCHANGED <<lock, lpc, snap, catalog, alias, hash, ret, pending, pendfile, data>>

\* The session or the stream raises, before or after the .pending file exists.
DownloadFail(r) ==
    /\ pc[r] \in {"Downloading", "Streaming"}
    /\ pc' = [pc EXCEPT ![r] = "DownloadError"]
    /\ UNCHANGED <<lock, lpc, snap, catalog, alias, hash, ret, pending, pendfile, sidecar, data>>

\* aiofiles.open(<filename>.pending, "wb") creates or truncates the file.
DownloadOpen(r) ==
    /\ pc[r] = "Downloading"
    /\ pendfile' = [pendfile EXCEPT ![FileOf(r)] = TRUE]
    /\ pc' = [pc EXCEPT ![r] = "Streaming"]
    /\ UNCHANGED <<lock, lpc, snap, catalog, alias, hash, ret, pending, sidecar, data>>

\* The last chunk is written and download_model returns.
DownloadDone(r) ==
    /\ pc[r] = "Streaming"
    /\ pc' = [pc EXCEPT ![r] = "Downloaded"]
    /\ UNCHANGED <<lock, lpc, snap, catalog, alias, hash, ret, pending, pendfile, sidecar, data>>

\* ---------------------------------------------------- store_model, 56-62
\* aiofiles.open(<filename>.modelcard, "w") creates or truncates the sidecar.
SidecarOpen(r) ==
    /\ pc[r] = "Downloaded"
    /\ sidecar' = [sidecar EXCEPT ![FileOf(r)] =
                      <<[by |-> r, written |-> FALSE, model |-> ModelOf(r)]>>]
    /\ pc' = [pc EXCEPT ![r] = "SidecarOpen"]
    /\ UNCHANGED <<lock, lpc, snap, catalog, alias, hash, ret, pending, pendfile, data>>

\* f.write(json.dumps(asdict(model))) and the close that flushes it.
SidecarWrite(r) ==
    /\ pc[r] = "SidecarOpen"
    /\ sidecar' = [sidecar EXCEPT ![FileOf(r)] =
                      <<[by |-> r, written |-> TRUE, model |-> ModelOf(r)]>>]
    /\ pc' = [pc EXCEPT ![r] = "SidecarWritten"]
    /\ UNCHANGED <<lock, lpc, snap, catalog, alias, hash, ret, pending, pendfile, data>>

\* The rename done as soon as the download has returned, before the sidecar.
Rename_unordered(r) ==
    /\ pc[r] \in {"Downloaded", "SidecarWritten"}
    /\ pendfile[FileOf(r)]
    /\ pendfile' = [pendfile EXCEPT ![FileOf(r)] = FALSE]
    /\ data' = [data EXCEPT ![FileOf(r)] = <<[by |-> r]>>]
    /\ pc' = [pc EXCEPT ![r] = "Renamed"]
    /\ UNCHANGED <<lock, lpc, snap, catalog, alias, hash, ret, pending, sidecar>>

\* rename(src, dst) replaces the final-named file.
Rename(r) ==
    /\ pc[r] = "SidecarWritten"
    /\ pendfile[FileOf(r)]
    /\ pendfile' = [pendfile EXCEPT ![FileOf(r)] = FALSE]
    /\ data' = [data EXCEPT ![FileOf(r)] = <<[by |-> r]>>]
    /\ pc' = [pc EXCEPT ![r] = "Renamed"]
    /\ UNCHANGED <<lock, lpc, snap, catalog, alias, hash, ret, pending, sidecar>>

\* rename raises FileNotFoundError: another request renamed the .pending file.
RenameFail(r) ==
    /\ pc[r] = "SidecarWritten"
    /\ ~pendfile[FileOf(r)]
    /\ pc' = [pc EXCEPT ![r] = "StorageError"]
    /\ UNCHANGED <<lock, lpc, snap, catalog, alias, hash, ret, pending, pendfile, sidecar, data>>

\* ------------------------------------------- download_civitai, lines 194-204
\* with pending_lock: pending[pending.index(alias)] = None
Release(r) ==
    /\ pc[r] = "Renamed"
    /\ pending' = release(pending, alias[r])
    /\ pc' = [pc EXCEPT ![r] = "Released"]
    /\ UNCHANGED <<lock, lpc, snap, catalog, alias, hash, ret, pendfile, sidecar, data>>

\* The refresh-checkpoints call answers: return {alias: "present", ...}.
Notify(r) ==
    /\ pc[r] = "Released"
    /\ pc' = [pc EXCEPT ![r] = "Committed"]
    /\ ret' = [ret EXCEPT ![r] = <<ModelOf(r)>>]
    /\ UNCHANGED <<lock, lpc, snap, catalog, alias, hash, pending, pendfile, sidecar, data>>

\* The refresh-checkpoints call raises: nothing catches it.
NotifyFail(r) ==
    /\ pc[r] = "Released"
    /\ pc' = [pc EXCEPT ![r] = "NotifyError"]
    /\ UNCHANGED <<lock, lpc, snap, catalog, alias, hash, ret, pending, pendfile, sidecar, data>>

\* ------------------------------------------------------------------ Next
Step(r) ==
    \/ ClaimInFlight(r)
    \/ ClaimFull(r)
    \/ Claim(r)
    \/ FetchFail(r)
    \/ Validate(r)
    \/ DownloadFail(r)
    \/ DownloadOpen(r)
    \/ DownloadDone(r)
    \/ SidecarOpen(r)
    \/ SidecarWrite(r)
    \/ Rename(r)
    \/ RenameFail(r)
    \/ Release(r)
    \/ Notify(r)
    \/ NotifyFail(r)

Next ==
    \E r \in Reqs :
        \/ \E a \in Aliases, h \in Hashes : ScanError(r, a, h)
        \/ \E a \in Aliases, h \in Hashes : Present(r, a, h)
        \/ \E a \in Aliases, h \in Hashes : Absent(r, a, h)
        \/ Step(r)

Spec == Init /\ [][Next]_vars

\* ------------------------------------------------- the gates on any record
\* One request whose hash resolves to an arbitrary catalog record.
InitGates ==
    /\ \E card \in Cards : catalog = [MainCatalog EXCEPT !["h1"] = card]
    /\ InitState

NextGates == Absent(1, "a", "h1") \/ Claim(1) \/ FetchFail(1) \/ Validate(1)

SpecGates == InitGates /\ [][NextGates]_vars

\* ------------------------------------------------------------ positions
\* Past admission: the request holds the slot it claimed and is fetching,
\* validating, downloading or committing.
PastAdmission ==
    {"Fetching", "Downloading", "Streaming", "Downloaded", "SidecarOpen",
     "SidecarWritten", "Renamed"}

\* The request has passed the gates and called download_model.
StartedDownload ==
    {"Downloading", "Streaming", "Downloaded", "SidecarOpen", "SidecarWritten",
     "Renamed", "Released", "Committed", "DownloadError", "StorageError",
     "NotifyError"}

\* The request has renamed its data file to the final name.
AfterRename == {"Renamed", "Released", "Committed", "NotifyError"}

\* The positions a request can be in right after the gates have run.
AfterGates ==
    {"WrongType", "UnsupportedBaseModel", "IndexError", "FailedSafetyScan",
     "FailedVirusScan", "Downloading"}

\* ------------------------------------------------------------------ C1
\* C1: for every alias at most one request is past admission (fetching,
\* validating, downloading or committing), and a request that reaches the
\* admission claim while its alias occupies a slot ends with AlreadyInFlight,
\* changes no file and goes no further.
C1_OnePastAdmission ==
    \A r1, r2 \in Reqs :
        (r1 # r2 /\ pc[r1] \in PastAdmission /\ pc[r2] \in PastAdmission)
            => alias[r1] # alias[r2]

C1_LoserStep ==
    \A r \in Reqs :
        /\ (pc[r] = "Checked" /\ pc'[r] # "Checked" /\ InTable(pending, alias[r]))
              => /\ pc'[r] = "AlreadyInFlight"
                 /\ UNCHANGED <<pending, pendfile, sidecar, data>>
        /\ pc[r] = "AlreadyInFlight" => pc'[r] = "AlreadyInFlight"

C1_AtMostOneInFlight == [](C1_OnePastAdmission) /\ [][C1_LoserStep]_vars

\* A request is past admission while another request for the same alias has
\* ended with AlreadyInFlight.
C1_Witness ==
    \E r1, r2 \in Reqs :
        /\ r1 # r2
        /\ alias[r1] = alias[r2]
        /\ pc[r1] = "Streaming"
        /\ pc[r2] = "AlreadyInFlight"

\* ------------------------------------------------------------------ C2
\* C2: of the requests issued for one (alias, hash) whose alias was not in the
\* registry at the start, at most one proceeds past admission and downloads.
C2_ExactlyOneDownloads ==
    \A r1, r2 \in Reqs :
        (r1 # r2 /\ alias[r1] # None /\ alias[r1] = alias[r2] /\ hash[r1] = hash[r2])
            => ~(pc[r1] \in StartedDownload /\ pc[r2] \in StartedDownload)

\* ------------------------------------------------------------------ C3
\* C3: when a request that claimed a slot leaves the in-flight positions for
\* any terminal outcome (or for the notification after its commit), its alias
\* occupies no slot of the admission table.
C3_SlotReleasedOnExit ==
    [][\A r \in Reqs :
          (pc[r] \in PastAdmission /\ pc'[r] \notin PastAdmission)
              => ~InTable(pending', alias[r])]_vars

\* ------------------------------------------------------------------ C4
\* C4: every Model that load_models returns has its data file at the final
\* name.
C4_RegistryHasData ==
    ~ScanRaises => \A m \in Registry : data[m.filename] # <<>>

\* ------------------------------------------------------------------ C5
\* C5: a request whose download has not completed, or has failed, has written
\* no sidecar and has put no file at a final name.
C5_NoCommitWithoutStream ==
    \A r \in Reqs :
        pc[r] \in {"Downloading", "Streaming", "DownloadError"}
            => \A f \in Files :
                  /\ sidecar[f] = <<>> \/ sidecar[f][1].by # r
                  /\ data[f] = <<>> \/ data[f][1].by # r

\* A download failed mid-stream and left its .pending file behind.
C5_Witness ==
    \E r \in Reqs :
        /\ pc[r] = "DownloadError"
        /\ pendfile[FileOf(r)]
        /\ data[FileOf(r)] = <<>>
        /\ sidecar[FileOf(r)] = <<>>

\* ------------------------------------------------------------------ C6
\* C6: once a request has committed its Model, the registry holds exactly that
\* Model for its alias in every later state.
C6_CommittedIsImmutable ==
    \A r \in Reqs : pc[r] \in AfterRename => Lookup(alias[r]) = {ModelOf(r)}

\* ------------------------------------------------------------------ C7
\* C7: after a request has returned Committed with a Model, the registry holds
\* that Model for the alias and the admission table does not hold the alias.
C7_CommittedRoundTrip ==
    \A r \in Reqs :
        pc[r] = "Committed"
            => /\ Lookup(alias[r]) = {ret[r][1]}
               /\ ~InTable(pending, alias[r])

\* ------------------------------------------------------------------ C8
\* C8: a request that arrives for an alias load_models returns ends with
\* Present and that alias's Model, changes neither the admission table nor
\* any file, and goes no further.
C8_PresentStep ==
    \A r \in Reqs :
        /\ (pc[r] = "Idle" /\ pc'[r] # "Idle" /\ ~ScanRaises /\ Lookup(alias'[r]) # {})
              => /\ pc'[r] = "Present"
                 /\ ret'[r] # <<>>
                 /\ ret'[r][1] \in Lookup(alias'[r])
                 /\ UNCHANGED <<pending, pendfile, sidecar, data>>
        /\ pc[r] = "Present" => (pc'[r] = "Present" /\ ret'[r] = ret[r])

C9_CapacityExhausted ==
    [][\A r \in Reqs :
          (/\ pc[r] = "Checked"
           /\ pc'[r] # "Checked"
           /\ ~InTable(pending, alias[r])
           /\ ~InTable(pending, None))
              => (pc'[r] = "CapacityExhausted" /\ pending' = pending)]_vars

\* ------------------------------------------------------------------ C10
\* C10: the outcome of validation is the first failing gate in the order
\* type, base model, primary-file selection, pickle scan, virus scan, and a
\* record that passes every gate proceeds to download.
C10_GateOrder ==
    \A r \in Reqs :
        pc[r] \in AfterGates =>
            LET card == catalog[hash[r]]
                typeOk == card.type = "Checkpoint"
                baseOk == card.baseModel \in AllowedBaseModels
                hasPrimary == \E i \in 1 .. Len(card.files) : card.files[i].primary
                first == CHOOSE i \in 1 .. Len(card.files) :
                            /\ card.files[i].primary
                            /\ \A j \in 1 .. i - 1 : ~card.files[j].primary
                pickleOk == card.files[first].pickleScanResult = "Success"
                virusOk == card.files[first].virusScanResult = "Success"
            IN  /\ ~typeOk => pc[r] = "WrongType"
                /\ (typeOk /\ ~baseOk) => pc[r] = "UnsupportedBaseModel"
                /\ (typeOk /\ baseOk /\ ~hasPrimary)
                      => pc[r] \notin {"FailedSafetyScan", "FailedVirusScan", "Downloading"}
                /\ (typeOk /\ baseOk /\ hasPrimary /\ ~pickleOk)
                      => pc[r] = "FailedSafetyScan"
                /\ (typeOk /\ baseOk /\ hasPrimary /\ pickleOk /\ ~virusOk)
                      => pc[r] = "FailedVirusScan"
                /\ (typeOk /\ baseOk /\ hasPrimary /\ pickleOk /\ virusOk)
                      => pc[r] = "Downloading"

\* A record of the wrong type whose primary file also fails both scans has
\* been rejected with WrongType.
C10_Witness ==
    \E r \in Reqs :
        /\ pc[r] = "WrongType"
        /\ catalog[hash[r]].baseModel = "SDXL 1.0"
        /\ PrimaryFiles(catalog[hash[r]]) # <<>>
        /\ primary_file_obj(catalog[hash[r]]).pickleScanResult # "Success"
        /\ primary_file_obj(catalog[hash[r]]).virusScanResult # "Success"

\* ------------------------------------------------------------------ C11
\* A request for alias "b" whose hash resolves to an arbitrary catalog record,
\* beside a request for alias "a" that downloads a valid checkpoint.
NextRejections ==
    \/ Absent(1, "a", "h2")
    \/ Claim(1)
    \/ Validate(1)
    \/ DownloadOpen(1)
    \/ Absent(2, "b", "h1")
    \/ Claim(2)
    \/ Validate(2)

SpecRejections == InitGates /\ [][NextRejections]_vars

\* C11: every step of a request up to and including its policy rejection
\* leaves the .pending, sidecar and data files as they are; its claim fills
\* one free slot and its rejection empties that slot again and changes no
\* other, so the table is as before the claim; a rejected request goes no
\* further.
C11_Step ==
    \A r \in Reqs :
        /\ (pc[r] \in {"Idle", "Checked", "Fetching"} /\ pc'[r] \in Rejections \cup {"Checked", "Fetching"} /\ pc'[r] # pc[r])
              => UNCHANGED <<pendfile, sidecar, data>>
        /\ (pc[r] = "Checked" /\ pc'[r] = "Fetching")
              => \E i \in 1 .. Len(pending) :
                    /\ pending[i] = None
                    /\ pending' = [pending EXCEPT ![i] = alias[r]]
        /\ (pc[r] = "Fetching" /\ pc'[r] \in Rejections)
              => /\ \E i \in 1 .. Len(pending) :
                       /\ pending[i] = alias[r]
                       /\ pending' = [pending EXCEPT ![i] = None]
                 /\ ~InTable(pending', alias[r])
        /\ pc[r] \in Rejections => pc'[r] = pc[r]

C11_RejectionLeavesNothing == [][C11_Step]_vars

\* A request was rejected for a failed virus scan while another alias holds a
\* slot and is streaming.
C11_Witness ==
    /\ pc[2] = "FailedVirusScan"
    /\ pc[1] = "Streaming"
    /\ pending = <<"a", None>>
    /\ pendfile = [f \in Files |-> f = "f2"]

\* ------------------------------------------------------------------ C12
\* C12: a scan that meets an unparsable sidecar skips it: a request that
\* arrives ends with Present when a well-formed sidecar holds its alias and
\* goes on to the admission table otherwise; no error escapes the scan.
C12_ScanSkipsMalformed ==
    [][\A r \in Reqs :
          (pc[r] = "Idle" /\ pc'[r] # "Idle")
              => IF Lookup(alias'[r]) # {}
                 THEN pc'[r] = "Present"
                 ELSE pc'[r] = "Checked"]_vars

\* ------------------------------------------------------------------ C13
\* C13: a record that passes the type and base-model gates and has no file
\* marked primary ends with NoPrimaryFile, with no file created and the
\* alias's slot released.
C13_NoPrimaryFile ==
    \A r \in Reqs :
        (/\ pc[r] \in AfterGates
         /\ catalog[hash[r]].type = "Checkpoint"
         /\ catalog[hash[r]].baseModel \in AllowedBaseModels
         /\ PrimaryFiles(catalog[hash[r]]) = <<>>)
            => /\ pc[r] = "NoPrimaryFile"
               /\ ~InTable(pending, alias[r])
               /\ \A f \in Files : ~pendfile[f] /\ sidecar[f] = <<>> /\ data[f] = <<>>

\* ------------------------------------------------------------------ C14
\* C14: whenever a data file exists at its final name, the sidecar file of
\* that name exists too.
C14_DataHasSidecar ==
    \A f \in Files : data[f] # <<>> => sidecar[f] # <<>>

\* A data file is at its final name beside the sidecar its request wrote.
C14_Witness ==
    \E f \in Files :
        /\ data[f] # <<>>
        /\ sidecar[f] # <<>>
        /\ sidecar[f][1].written
        /\ sidecar[f][1].by = data[f][1].by

\* ------------------------------------------------------------------ C15
\* C15: no alias occupies more than one slot of the admission table, and
\* every slot is empty or holds one alias.
C15_TableWellFormed ==
    /\ Len(pending) = Capacity
    /\ \A i \in 1 .. Len(pending) : pending[i] \in Aliases \cup {None}
    /\ \A i, j \in 1 .. Len(pending) :
          (i # j /\ pending[i] # None) => pending[i] # pending[j]

\* The first slot was claimed and released while the second is still held.
C15_Witness ==
    /\ pending = <<None, "b">>
    /\ pc[1] = "Committed"
    /\ pc[2] \in PastAdmission

\* ------------------------------------------------------------------ C16
\* C16: while a request is past admission and has not yet released, its alias
\* occupies exactly one slot and the snapshot of GET /pending lists it.
C16_InFlightHoldsOneSlot ==
    \A r \in Reqs :
        pc[r] \in PastAdmission
            => /\ Cardinality({i \in 1 .. Len(pending) : pending[i] = alias[r]}) = 1
               /\ \E k \in 1 .. Len(list_pending(pending)) :
                     list_pending(pending)[k] = alias[r]

\* A request is about to rename while the snapshot lists its alias and no
\* longer lists the alias of a request that has released.
C16_Witness ==
    \E r, q \in Reqs :
        /\ pc[r] = "SidecarWritten"
        /\ pc[q] = "Released"
        /\ list_pending(pending) = <<alias[r]>>
        /\ alias[q] # alias[r]

\* ------------------------------------------------------------------ C17
\* The lock blocks taken apart.  In Spec a `with pending_lock:` block is one
\* step and the lock is free in every state; here entering the block, each
\* access to `pending` inside it and leaving it are steps of their own, next
\* to the I/O steps of the other requests and to the handler of GET /pending.
holder(r) == <<"download_civitai", r>>

ListHolder == <<"list", 0>>

\* The position a request takes on entering each `with pending_lock:` block.
Entered ==
    [Checked |-> "ClaimLocked", Reject |-> "RejectLocked", Renamed |-> "ReleaseLocked"]

\* The positions inside a `with pending_lock:` block.
LockedPositions ==
    {"ClaimLocked", "ClaimIndex", "ClaimReturn", "ClaimRaise", "ClaimDone",
     "RejectLocked", "RejectDone", "ReleaseLocked", "ReleaseDone"}

\* The positions at which a request is suspended in a network call or file I/O.
IOPositions ==
    {"Fetching", "Downloading", "Streaming", "Downloaded", "SidecarOpen",
     "SidecarWritten"}

\* Entering the block without waiting for the lock to be free.
pending_lock_enter_nowait(r) ==
    /\ pc[r] \in DOMAIN Entered
    /\ lock' = holder(r)
    /\ pc' = [pc EXCEPT ![r] = Entered[pc[r]]]
    /\ UNCHANGED <<lpc, snap, catalog, alias, hash, ret, pending, pendfile, sidecar, data>>

\* with pending_lock: the block is entered when the lock is free.
pending_lock_enter(r) ==
    /\ pc[r] \in DOMAIN Entered
    /\ lock = <<>>
    /\ lock' = holder(r)
    /\ pc' = [pc EXCEPT ![r] = Entered[pc[r]]]
    /\ UNCHANGED <<lpc, snap, catalog, alias, hash, ret, pending, pendfile, sidecar, data>>

\* if alias in pending: return {alias: "pending"}
ClaimTest(r) ==
    /\ pc[r] = "ClaimLocked"
    /\ pc' = [pc EXCEPT ![r] = IF InTable(pending, alias[r]) THEN "ClaimReturn"
                                                              ELSE "ClaimIndex"]
    /\ UNCHANGED <<lock, lpc, snap, catalog, alias, hash, ret, pending, pendfile, sidecar, data>>

\* idx = pending.index(None) raises ValueError, or pending[idx] = alias.
ClaimSlot(r) ==
    /\ pc[r] = "ClaimIndex"
    /\ IF InTable(pending, None)
          THEN /\ pending' = [pending EXCEPT ![index(pending, None)] = alias[r]]
               /\ pc' = [pc EXCEPT ![r] = "ClaimDone"]
          ELSE /\ pending' = pending
               /\ pc' = [pc EXCEPT ![r] = "ClaimRaise"]
    /\ UNCHANGED <<lock, lpc, snap, catalog, alias, hash, ret, pendfile, sidecar, data>>

\* The gates of lines 144-177 up to the lock block of a rejection.
Gates(r) ==
    /\ pc[r] = "Fetching"
    /\ LET v == validate(catalog[hash[r]])
       IN  pc' = [pc EXCEPT ![r] = IF v = "ok" THEN "Downloading"
                                   ELSE IF v \in Rejections THEN "Reject" ELSE v]
    /\ UNCHANGED <<lock, lpc, snap, catalog, alias, hash, ret, pending, pendfile, sidecar, data>>

\* idx = pending.index(alias); pending[idx] = None, inside the block.
Clear(r) ==
    /\ pc[r] \in {"RejectLocked", "ReleaseLocked"}
    /\ InTable(pending, alias[r])
    /\ pending' = release(pending, alias[r])
    /\ pc' = [pc EXCEPT ![r] = IF pc[r] = "RejectLocked" THEN "RejectDone"
                                                         ELSE "ReleaseDone"]
    /\ UNCHANGED <<lock, lpc, snap, catalog, alias, hash, ret, pendfile, sidecar, data>>

\* Where the request stands once it has left the block.
Left(r) ==
    CASE pc[r] = "ClaimReturn" -> "AlreadyInFlight"
      [] pc[r] = "ClaimRaise" -> "ValueError"
      [] pc[r] = "ClaimDone" -> "Fetching"
      [] pc[r] = "RejectDone" -> validate(catalog[hash[r]])
      [] pc[r] = "ReleaseDone" -> "Released"

\* The block is left by its end, by `return` or by an exception: the context
\* manager releases the lock in each case.
pending_lock_exit(r) ==
    /\ pc[r] \in {"ClaimReturn", "ClaimRaise", "ClaimDone", "RejectDone", "ReleaseDone"}
    /\ lock' = <<>>
    /\ pc' = [pc EXCEPT ![r] = Left(r)]
    /\ UNCHANGED <<lpc, snap, catalog, alias, hash, ret, pending, pendfile, sidecar, data>>

\* GET /pending enters its block.
ListEnter ==
    /\ lpc = "idle"
    /\ lock = <<>>
    /\ lock' = ListHolder
    /\ lpc' = "reading"
    /\ snap' = <<>>
    /\ UNCHANGED <<catalog, pc, alias, hash, ret, pending, pendfile, sidecar, data>>

\* The comprehension reads the next slot.
ListRead ==
    /\ lpc = "reading"
    /\ snap' = Append(snap, pending[Len(snap) + 1])
    /\ lpc' = IF Len(snap) + 1 = Len(pending) THEN "returning" ELSE "reading"
    /\ UNCHANGED <<lock, catalog, pc, alias, hash, ret, pending, pendfile, sidecar, data>>

\* return {"pending": ...} leaves the block; snap becomes the response.
ListExit ==
    /\ lpc = "returning"
    /\ lock' = <<>>
    /\ lpc' = "idle"
    /\ snap' = list_pending(snap)
    /\ UNCHANGED <<catalog, pc, alias, hash, ret, pending, pendfile, sidecar, data>>

\* Alias "a" with a record that passes the gates, alias "b" with one the type
\* gate rejects, and a third request for "a" again or for a third alias.
NextLock ==
    \/ Absent(1, "a", "h1")
    \/ Absent(2, "b", "h3")
    \/ \E a \in {"a", "c"} : Absent(3, a, "h3")
    \/ \E r \in Reqs :
          \/ pending_lock_enter(r)
          \/ ClaimTest(r)
          \/ ClaimSlot(r)
          \/ Gates(r)
          \/ Clear(r)
          \/ pending_lock_exit(r)
          \/ DownloadOpen(r)
          \/ DownloadDone(r)
          \/ SidecarOpen(r)
          \/ SidecarWrite(r)
          \/ Rename(r)
    \/ ListEnter
    \/ ListRead
    \/ ListExit

SpecLock == Init /\ [][NextLock]_vars

\* The lock is held exactly inside the blocks, the claim section sees the
\* table it tested, and the snapshot is the table.
C17_LockInv ==
    /\ \A r \in Reqs : lock = holder(r) <=> pc[r] \in LockedPositions
    /\ lock = ListHolder <=> lpc \in {"reading", "returning"}
    /\ \A r \in Reqs : pc[r] \in IOPositions => lock # holder(r)
    /\ \A r \in Reqs : pc[r] = "ClaimIndex" => ~InTable(pending, alias[r])
    /\ \A r \in Reqs :
          pc[r] = "ClaimDone"
              => Cardinality({i \in 1 .. Len(pending) : pending[i] = alias[r]}) = 1
    /\ lpc # "idle" => snap = SubSeq(pending, 1, Len(snap))
    /\ lpc = "returning" => list_pending(snap) = list_pending(pending)

\* While a context is inside a block no other context writes the table.
C17_LockStep ==
    /\ \A r \in Reqs :
          (lock = holder(r) /\ pending' # pending) => pc'[r] # pc[r]
    /\ lock = ListHolder => pending' = pending

\* C17: no context holds the admission-table lock while suspended in a network
\* call or file I/O; the claim, release and snapshot sections run without
\* another context touching the table; and the lock is free on every exit from
\* them, the AlreadyInFlight and capacity-exhausted exits included.
C17_LockNeverHeldAcrossIO == []C17_LockInv /\ [][C17_LockStep]_vars

\* The snapshot is half read under the lock while one request streams, one
\* has left the claim by the capacity-exhausted exit and one waits to clear
\* its slot.
C17_Witness ==
    /\ lock = ListHolder
    /\ snap = <<"a">>
    /\ pc[1] = "Streaming"
    /\ pc[2] = "Reject"
    /\ pc[3] = "ValueError"

\* ------------------------------------------------------------------ C18
\* C18: an acquisition commits (rename), then releases its slot, then
\* notifies the sink; the notification follows a commit, and whether it
\* succeeds or fails the files and the table stay as they are and the
\* acquisition returns Committed with its Model.
C18_Step ==
    \A r \in Reqs :
        /\ (pc[r] # "Renamed" /\ pc'[r] = "Renamed")
              => /\ pc[r] = "SidecarWritten"
                 /\ data'[FileOf(r)] = <<[by |-> r]>>
                 /\ InTable(pending', alias[r])
        /\ (pc[r] # "Released" /\ pc'[r] = "Released")
              => /\ pc[r] = "Renamed"
                 /\ pending' = release(pending, alias[r])
                 /\ UNCHANGED <<pendfile, sidecar, data>>
        /\ (pc[r] = "Released" /\ pc'[r] # "Released")
              => /\ pc'[r] = "Committed"
                 /\ ret'[r] = <<ModelOf(r)>>
                 /\ UNCHANGED <<pending, pendfile, sidecar, data>>

C18_CommitReleaseNotify == [][C18_Step]_vars

\* ------------------------------------------------------------------ C19
\* C19: at most one in-flight acquisition writes or renames a given
\* <filename>.pending: two requests between the opening of the temporary
\* file and its rename never have the same filename.
C19_OneWriterPerTempFile ==
    \A r1, r2 \in Reqs :
        (/\ r1 # r2
         /\ pc[r1] \in {"Streaming", "Downloaded", "SidecarOpen", "SidecarWritten"}
         /\ pc[r2] \in {"Streaming", "Downloaded", "SidecarOpen", "SidecarWritten"})
            => FileOf(r1) # FileOf(r2)

============================================================================
